---- MODULE Spec2Model ----
(***************************************************************************)
(* Knowledge graph engine of zentri (src-tauri/src/graph.rs).              *)
(*                                                                         *)
(* GraphEngine keeps a petgraph DiGraph<String, ()> and three HashMaps,    *)
(* each behind its own RwLock.  The model keeps                            *)
(*   - the graph as the vector of node weights (card ids) plus the         *)
(*     multiset of edges between node positions.  NodeIndex i of petgraph  *)
(*     is position i+1 of the sequence `nodes`;                            *)
(*   - every HashMap as a function whose DOMAIN is the key set;            *)
(*   - every returned Vec whose order comes from HashMap or adjacency-list *)
(*     iteration as a set (or as a sequence in node order where entries    *)
(*     may repeat).                                                        *)
(* f32 scores are fixed-point integers in units of 1/Scale.                *)
(***************************************************************************)
EXTENDS Integers, Sequences, FiniteSets, TLC

VARIABLES
    directed_graph,   \* GraphEngine.directed_graph : [nodes, edges]
    node_indices,     \* GraphEngine.node_indices   : id -> node position
    title_to_id,      \* GraphEngine.title_to_id    : title/alias -> id
    card_meta,        \* GraphEngine.card_meta      : id -> CardMeta
    initialized,      \* GraphEngine.initialized
    cards,            \* argument of the latest (or pending) rebuild_with_cards
    ret,              \* the latest mutating call and how it ended
    calls,            \* number of calls made so far
    pc,               \* per thread: 0 when idle, else the next lock of its call
    local,            \* per thread: the local variables of its call
    held,             \* the read guards alive: <<thread, field>>
    installed,        \* per field: the number of the call that stored its value
    reads_wait        \* the platform's RwLock holds new reads back behind a waiting writer

engine == <<directed_graph, node_indices, title_to_id, card_meta, initialized>>
threads == <<pc, local, held, installed, reads_wait>>
vars == <<directed_graph, node_indices, title_to_id, card_meta, initialized,
          cards, ret, calls, pc, local, held, installed, reads_wait>>

-----------------------------------------------------------------------------
(* Bounds and input universes *)

MaxLinks == 2        \* most link references carried by one card list
MaxLimit == 3        \* largest limit asked of get_importance_ranking
MaxCalls == 3        \* most mutating calls in one behaviour

Ids == {"a", "b", "c"}
\* "b" is also a card id, "B" differs from it only by case.
Titles == {"B", "b"}
Aliases == {"U"}
LinkTexts == Ids \cup Titles \cup Aliases
CardTypes == {"permanent"}

None == "<None>"
EmptyMap == [k \in {} |-> k]

Range(s) == {s[i] : i \in 1..Len(s)}

-----------------------------------------------------------------------------
(* petgraph::graph::Graph as the engine uses it *)

\* a graph that is born holding one node
GraphWithNode == [nodes |-> <<"a">>, edges |-> EmptyMap]

NewGraph == [nodes |-> <<>>, edges |-> EmptyMap]

node_count(g) == Len(g.nodes)

\* add_node pushes the weight and returns the new node's position
add_node(g, w) == [g EXCEPT !.nodes = Append(@, w)]

EdgeCount(g, s, t) == IF <<s, t>> \in DOMAIN g.edges THEN g.edges[<<s, t>>] ELSE 0

\* find_edge(a, b).is_some(); None for a position outside the graph
find_edge(g, s, t) == EdgeCount(g, s, t) > 0

\* add_edge panics when an endpoint is outside the graph; callers test InBounds first
InBounds(g, i) == i \in 1..Len(g.nodes)

add_edge(g, s, t) ==
    [g EXCEPT !.edges = (<<s, t>> :> (EdgeCount(g, s, t) + 1)) @@ @]

\* edges_directed(idx, dir).count(); an empty iterator for a position outside the graph
SumOver(f, S) ==
    LET RECURSIVE sum(_)
        sum(T) == IF T = {} THEN 0
                  ELSE LET x == CHOOSE y \in T : TRUE IN f[x] + sum(T \ {x})
    IN sum(S)

out_degree(g, i) == SumOver(g.edges, {e \in DOMAIN g.edges : e[1] = i})
in_degree(g, i) == SumOver(g.edges, {e \in DOMAIN g.edges : e[2] = i})

-----------------------------------------------------------------------------
(* GraphEngine::build_from_cards *)

\* link resolution that consults the title/alias index before the ids
ResolveLinkTitleFirst(indices, title_map, link_text) ==
    IF link_text \in DOMAIN title_map THEN title_map[link_text]
    ELSE IF link_text \in DOMAIN indices THEN link_text
    ELSE None

\* link resolution of the second pass: id first, then title/alias
ResolveLink(indices, title_map, link_text) ==
    IF link_text \in DOMAIN indices THEN link_text
    ELSE IF link_text \in DOMAIN title_map THEN title_map[link_text]
    ELSE None

RECURSIVE InsertAliases(_, _, _)
InsertAliases(title_map, aliases, id) ==
    IF aliases = <<>> THEN title_map
    ELSE InsertAliases((Head(aliases) :> id) @@ title_map, Tail(aliases), id)

NewCardMeta(card) ==
    [title |-> card.title, card_type |-> card.card_type,
     links |-> card.links, aliases |-> card.aliases]

\* a first pass in which a title or alias stays with the first card that has it
RECURSIVE FirstPassFirstWins(_, _)
FirstPassFirstWins(st, cs) ==
    IF cs = <<>> THEN st
    ELSE LET card == Head(cs)
             g == add_node(st.graph, card.id)
         IN FirstPassFirstWins(
                [graph |-> g,
                 indices |-> (card.id :> node_count(g)) @@ st.indices,
                 title_map |-> st.title_map
                               @@ InsertAliases((card.title :> card.id) @@ EmptyMap,
                                                card.aliases, card.id),
                 meta_map |-> (card.id :> NewCardMeta(card)) @@ st.meta_map],
                Tail(cs))

\* first pass: one node per card, index, title/alias and metadata entries
RECURSIVE FirstPass(_, _)
FirstPass(st, cs) ==
    IF cs = <<>> THEN st
    ELSE LET card == Head(cs)
             g == add_node(st.graph, card.id)
         IN FirstPass(
                [graph |-> g,
                 indices |-> (card.id :> node_count(g)) @@ st.indices,
                 title_map |-> InsertAliases((card.title :> card.id) @@ st.title_map,
                                             card.aliases, card.id),
                 meta_map |-> (card.id :> NewCardMeta(card)) @@ st.meta_map],
                Tail(cs))

\* the inner loop of the second pass for one card
RECURSIVE BuildAddLinks(_, _, _, _, _)
BuildAddLinks(g, indices, title_map, source_idx, links) ==
    IF links = <<>> THEN g
    ELSE LET tid == ResolveLink(indices, title_map, Head(links))
             g2 == IF tid # None /\ tid \in DOMAIN indices
                      /\ source_idx # indices[tid]
                      /\ ~find_edge(g, source_idx, indices[tid])
                   THEN add_edge(g, source_idx, indices[tid])
                   ELSE g
         IN BuildAddLinks(g2, indices, title_map, source_idx, Tail(links))

RECURSIVE SecondPass(_, _, _, _)
SecondPass(g, indices, title_map, cs) ==
    IF cs = <<>> THEN g
    ELSE LET card == Head(cs)
             g2 == IF card.id \in DOMAIN indices
                   THEN BuildAddLinks(g, indices, title_map, indices[card.id], card.links)
                   ELSE g
         IN SecondPass(g2, indices, title_map, Tail(cs))

\* a build in one pass: the references of each card are resolved as soon as
\* the card is added, against the cards added so far
RECURSIVE OnePass(_, _)
OnePass(st, cs) ==
    IF cs = <<>> THEN st
    ELSE LET card == Head(cs)
             g == add_node(st.graph, card.id)
             indices == (card.id :> node_count(g)) @@ st.indices
             title_map == InsertAliases((card.title :> card.id) @@ st.title_map,
                                        card.aliases, card.id)
         IN OnePass(
                [graph |-> BuildAddLinks(g, indices, title_map, indices[card.id],
                                         card.links),
                 indices |-> indices,
                 title_map |-> title_map,
                 meta_map |-> (card.id :> NewCardMeta(card)) @@ st.meta_map],
                Tail(cs))

build_one_pass(cs) ==
    OnePass([graph |-> NewGraph, indices |-> EmptyMap,
             title_map |-> EmptyMap, meta_map |-> EmptyMap], cs)

build_from_cards(cs) ==
    LET p1 == FirstPass([graph |-> NewGraph, indices |-> EmptyMap,
                         title_map |-> EmptyMap, meta_map |-> EmptyMap], cs)
    IN [p1 EXCEPT !.graph = SecondPass(p1.graph, p1.indices, p1.title_map, cs)]


-----------------------------------------------------------------------------
(* GraphEngine::update_card and GraphEngine::remove_card.  Both work on the *)
(* four guarded fields as a record st = [graph, indices, title_map,         *)
(* meta_map].                                                               *)

\* graph.remove_edge for every edge leaving idx (none when idx is outside)
RemoveOutgoing(g, idx) ==
    [g EXCEPT !.edges = [e \in {d \in DOMAIN @ : d[1] # idx} |-> @[e]]]

\* the loop "添加新的出边".  add_edge panics ("node indices out of bounds")
\* when an endpoint lies outside the graph; the edges added before stay.
\* update_card's edge loop without the test source_idx != target_idx
RECURSIVE UpdateAddLinksToSelf(_, _, _, _, _)
UpdateAddLinksToSelf(g, indices, title_map, source_idx, links) ==
    IF links = <<>> THEN [graph |-> g, panicked |-> FALSE]
    ELSE LET tid == ResolveLink(indices, title_map, Head(links))
         IN IF tid # None /\ tid \in DOMAIN indices
            THEN IF InBounds(g, source_idx) /\ InBounds(g, indices[tid])
                 THEN UpdateAddLinksToSelf(add_edge(g, source_idx, indices[tid]),
                                           indices, title_map, source_idx, Tail(links))
                 ELSE [graph |-> g, panicked |-> TRUE]
            ELSE UpdateAddLinksToSelf(g, indices, title_map, source_idx, Tail(links))

RECURSIVE UpdateAddLinks(_, _, _, _, _)
UpdateAddLinks(g, indices, title_map, source_idx, links) ==
    IF links = <<>> THEN [graph |-> g, panicked |-> FALSE]
    ELSE LET tid == ResolveLink(indices, title_map, Head(links))
         IN IF tid # None /\ tid \in DOMAIN indices /\ source_idx # indices[tid]
            THEN IF InBounds(g, source_idx) /\ InBounds(g, indices[tid])
                 THEN UpdateAddLinks(add_edge(g, source_idx, indices[tid]),
                                     indices, title_map, source_idx, Tail(links))
                 ELSE [graph |-> g, panicked |-> TRUE]
            ELSE UpdateAddLinks(g, indices, title_map, source_idx, Tail(links))

\* the block "更新元数据"
UpdateMeta(meta, card_id, links, title, aliases) ==
    IF card_id \in DOMAIN meta
    THEN [meta EXCEPT ![card_id].title = title,
                      ![card_id].links = links,
                      ![card_id].aliases = aliases]
    ELSE (card_id :> [title |-> title, card_type |-> "fleeting",
                      links |-> links, aliases |-> aliases]) @@ meta

\* update_card: the fields it leaves and whether it panicked on the way.
\* A panic unwinds before the metadata block; what was written stays, and
\* later calls take the poisoned locks with into_inner().
update_card(st, card_id, links, title, aliases) ==
    LET known == card_id \in DOMAIN st.indices
        g1 == IF known THEN RemoveOutgoing(st.graph, st.indices[card_id])
              ELSE add_node(st.graph, card_id)
        indices1 == IF known THEN st.indices
                    ELSE (card_id :> node_count(g1)) @@ st.indices
        source_idx == indices1[card_id]
        title_map1 == InsertAliases((title :> card_id) @@ st.title_map, aliases, card_id)
        added == UpdateAddLinks(g1, indices1, title_map1, source_idx, links)
    IN [graph |-> added.graph,
        indices |-> indices1,
        title_map |-> title_map1,
        meta_map |-> IF added.panicked THEN st.meta_map
                     ELSE UpdateMeta(st.meta_map, card_id, links, title, aliases),
        panicked |-> added.panicked]

\* Graph::remove_node(idx): None for a position outside the graph; otherwise
\* the node's edges go, the last node is swapped into its position and the
\* edges of that node follow it
remove_node(g, idx) ==
    IF ~InBounds(g, idx) THEN g
    ELSE LET last == node_count(g)
             moved(i) == IF i = last THEN idx ELSE i
             kept == {e \in DOMAIN g.edges : e[1] # idx /\ e[2] # idx}
         IN [nodes |-> [i \in 1..(last - 1) |->
                            IF i = idx THEN g.nodes[last] ELSE g.nodes[i]],
             edges |-> [e \in {<<moved(d[1]), moved(d[2])>> : d \in kept} |->
                            g.edges[CHOOSE d \in kept :
                                       <<moved(d[1]), moved(d[2])>> = e]]]

RemoveKey(m, k) == [x \in DOMAIN m \ {k} |-> m[x]]

\* remove_card: the title/alias index is not among the fields it locks
remove_card(st, card_id) ==
    [graph |-> IF card_id \in DOMAIN st.indices
               THEN remove_node(st.graph, st.indices[card_id])
               ELSE st.graph,
     indices |-> RemoveKey(st.indices, card_id),
     title_map |-> st.title_map,
     meta_map |-> RemoveKey(st.meta_map, card_id)]

-----------------------------------------------------------------------------
(* Queries.  Each takes the three guarded fields it reads as parameters.    *)

\* GraphEngine::rebuild (deprecated): an empty body
rebuild == TRUE

\* GraphEngine::ensure_initialized: calls the empty rebuild(), changes nothing
ensure_initialized == IF ~initialized THEN rebuild ELSE TRUE

\* a rebuild() that marks the engine initialized
rebuild_sets_flag(flag) == TRUE

\* the initialized flag when rebuild() returns: its body is empty, the flag
\* is as it was
rebuild_flag(flag) == flag

\* the initialized flag when ensure_initialized returns
ensure_initialized_flag(flag) == IF ~flag THEN rebuild_flag(flag) ELSE flag

\* what a call of rebuild() does to the engine
RebuildEffect ==
    /\ rebuild
    /\ initialized' = rebuild_flag(initialized)
    /\ UNCHANGED <<directed_graph, node_indices, title_to_id, card_meta>>

\* what a call of ensure_initialized() does to the engine
EnsureInitialized ==
    /\ ensure_initialized
    /\ initialized' = ensure_initialized_flag(initialized)
    /\ UNCHANGED <<directed_graph, node_indices, title_to_id, card_meta>>

BacklinkInfo(source_id, source_meta) ==
    [id |-> source_id, title |-> source_meta.title,
     card_type |-> source_meta.card_type, context |-> None]

\* get_backlinks following the edges in Direction::Outgoing instead
get_backlinks_outgoing(g, indices, meta, card_id) ==
    IF card_id \in DOMAIN indices
    THEN {BacklinkInfo(g.nodes[e[2]], meta[g.nodes[e[2]]]) :
            e \in {d \in DOMAIN g.edges :
                     d[1] = indices[card_id] /\ g.nodes[d[2]] \in DOMAIN meta}}
    ELSE {}

\* the entries of the returned Vec, as a set
get_backlinks(g, indices, meta, card_id) ==
    IF card_id \in DOMAIN indices
    THEN {BacklinkInfo(g.nodes[e[1]], meta[g.nodes[e[1]]]) :
            e \in {d \in DOMAIN g.edges :
                     d[2] = indices[card_id] /\ g.nodes[d[1]] \in DOMAIN meta}}
    ELSE {}

\* f32 scores in units of 1/Scale
Scale == 1000000
Damping == 85          \* damping 0.85, in hundredths
Iterations == 20

\* one power-iteration step: new_ranks for the node positions 1..k
RECURSIVE RankStep(_, _, _, _)
RankStep(g, ranks, damping, k) ==
    LET n == node_count(g)
        contrib(e) == IF out_degree(g, e[1]) > 0
                      THEN g.edges[e] * (ranks[e[1]] \div out_degree(g, e[1]))
                      ELSE 0
        RECURSIVE rank_sum(_)
        rank_sum(E) == IF E = {} THEN 0
                       ELSE LET e == CHOOSE x \in E : TRUE
                            IN contrib(e) + rank_sum(E \ {e})
    IN IF k = 0 THEN <<>>
       ELSE Append(RankStep(g, ranks, damping, k - 1),
                   ((100 - damping) * Scale) \div (100 * n)
                   + (damping * rank_sum({e \in DOMAIN g.edges : e[2] = k})) \div 100)

\* ranks.insert(idx, initial_rank) for every node
RECURSIVE InitialRanks(_, _)
InitialRanks(n, k) == IF k = 0 THEN <<>> ELSE Append(InitialRanks(n, k - 1), Scale \div n)

\* for _ in 0..iterations { ...; ranks = new_ranks }
RECURSIVE Iterate(_, _, _, _)
Iterate(g, ranks, damping, k) ==
    IF k = 0 THEN ranks
    ELSE CHOOSE result \in {Iterate(g, new_ranks, damping, k - 1) :
                               new_ranks \in {RankStep(g, ranks, damping, node_count(g))}} : TRUE

compute_pagerank(g, indices, damping, iterations) ==
    LET n == node_count(g)
    IN IF n = 0 THEN EmptyMap
       ELSE LET ranks == Iterate(g, InitialRanks(n, n), damping, iterations)
                known == {id \in DOMAIN indices : indices[id] \in 1..n}
            IN [id \in known |-> ranks[indices[id]]]

\* get_orphan_nodes that tests the in-degree alone
get_orphan_nodes_in_only(g, indices) ==
    {id \in DOMAIN indices : in_degree(g, indices[id]) = 0}

\* get_orphan_nodes: ids whose indexed node has no edge in either direction
get_orphan_nodes(g, indices) ==
    {id \in DOMAIN indices :
        in_degree(g, indices[id]) = 0 /\ out_degree(g, indices[id]) = 0}


\* pagerank.get(id).unwrap_or(0.0)
ScoreOf(pagerank, id) == IF id \in DOMAIN pagerank THEN pagerank[id] ELSE 0

\* an entry of get_importance_ranking
CardImportance(g, indices, meta, pagerank, id) ==
    [id |-> id, title |-> meta[id].title, score |-> ScoreOf(pagerank, id),
     inbound_links |-> in_degree(g, indices[id]),
     outbound_links |-> out_degree(g, indices[id])]

\* the orders in which the members of a set can come
Orders(S) ==
    {r \in [1..Cardinality(S) -> S] : \A i, j \in DOMAIN r : r[i] = r[j] => i = j}

\* the entries in any order with the lower scores first, cut at limit
RankingsAscending(rankings, limit) ==
    {SubSeq(r, 1, IF limit < Len(r) THEN limit ELSE Len(r)) :
        r \in {o \in Orders(rankings) :
                 \A i, j \in DOMAIN o : i < j => o[i].score <= o[j].score}}

\* rankings.sort_by(score descending) and truncate(limit).  The sort is
\* stable on the HashMap's iteration order, which is any order: the value is
\* the set of the vectors that can be returned.
Rankings(rankings, limit) ==
    {SubSeq(r, 1, IF limit < Len(r) THEN limit ELSE Len(r)) :
        r \in {o \in Orders(rankings) :
                 \A i, j \in DOMAIN o : i < j => o[i].score >= o[j].score}}

\* the entries collected before the sort, one for each indexed card that
\* has metadata
ImportanceEntries(g, indices, meta) ==
    UNION {{CardImportance(g, indices, meta, pagerank, id) :
               id \in DOMAIN indices \cap DOMAIN meta} :
           pagerank \in {compute_pagerank(g, indices, Damping, Iterations)}}

get_importance_ranking(g, indices, meta, limit) ==
    Rankings(ImportanceEntries(g, indices, meta), limit)

\* kosaraju_scc: the strongly connected components, as sets of node positions
Successors(g, S) == {e[2] : e \in {d \in DOMAIN g.edges : d[1] \in S}}

RECURSIVE ReachableFrom(_, _)
ReachableFrom(g, S) ==
    LET T == S \cup Successors(g, S)
    IN IF T = S THEN S ELSE ReachableFrom(g, T)

\* the nodes joined to node i by a directed path in one direction or the other
OneWayOf(g, i) ==
    {j \in 1..node_count(g) : j \in ReachableFrom(g, {i}) \/ i \in ReachableFrom(g, {j})}

SccOf(g, i) ==
    {j \in 1..node_count(g) : j \in ReachableFrom(g, {i}) /\ i \in ReachableFrom(g, {j})}

Min(S) == CHOOSE x \in S : \A y \in S : x <= y

\* a set of positions as the sequence of its members in increasing order
RECURSIVE Ascending(_)
Ascending(S) == IF S = {} THEN <<>> ELSE <<Min(S)>> \o Ascending(S \ {Min(S)})

\* The components in the order of their first node.  petgraph emits them in
\* the finishing order of its second DFS; the engine exposes that order only
\* as the cluster id and as the order among clusters of equal size.
kosaraju_scc(g) ==
    LET firsts == {i \in 1..node_count(g) : i = Min(SccOf(g, i))}
        order == Ascending(firsts)
    IN [k \in 1..Len(order) |-> SccOf(g, order[k])]

\* clusters.sort_by(|a, b| b.size.cmp(&a.size)): stable, larger first
RECURSIVE InsertBySize(_, _)
InsertBySize(sorted, c) ==
    IF sorted = <<>> THEN <<c>>
    ELSE IF Head(sorted).size >= c.size THEN <<Head(sorted)>> \o InsertBySize(Tail(sorted), c)
    ELSE <<c>> \o sorted

RECURSIVE SortBySize(_)
SortBySize(cs) ==
    IF cs = <<>> THEN <<>>
    ELSE InsertBySize(SortBySize(SubSeq(cs, 1, Len(cs) - 1)), cs[Len(cs)])

\* get_clusters before the choice of each center: `centers` holds the members
\* of highest score, among which max_by returns the last one in DFS order
get_clusters(g, indices) ==
    LET sccs == kosaraju_scc(g)
        pagerank == compute_pagerank(g, indices, Damping, Iterations)
        cluster(k) ==
            LET pos == Ascending(sccs[k])
                nodes == [i \in 1..Len(pos) |-> g.nodes[pos[i]]]
            IN [id |-> k - 1, size |-> Len(nodes), nodes |-> nodes,
                centers |-> {x \in Range(nodes) :
                               \A y \in Range(nodes) :
                                  ScoreOf(pagerank, y) <= ScoreOf(pagerank, x)}]
    IN SortBySize([k \in 1..Len(sccs) |-> cluster(k)])

KnowledgeCluster(c, center) ==
    [id |-> c.id, size |-> c.size, nodes |-> c.nodes, center_node |-> center]

-----------------------------------------------------------------------------
(* compute_layout(cards): the undirected graph and the exported lists.  The *)
(* random start positions and the force simulation decide only x and y,     *)
(* which the model leaves out.                                              *)

\* a find_edge that looks from the source to the target only
find_edge_one_way(g, s, t) == EdgeCount(g, s, t) > 0

\* Graph<_, _, Undirected>::find_edge looks in both directions
find_edge_undirected(g, s, t) == find_edge(g, s, t) \/ find_edge(g, t, s)

RECURSIVE LayoutAddLinks(_, _, _, _, _)
LayoutAddLinks(g, indices, title_map, source_idx, links) ==
    IF links = <<>> THEN g
    ELSE LET tid == ResolveLink(indices, title_map, Head(links))
             g2 == IF tid # None /\ tid \in DOMAIN indices
                      /\ ~find_edge_undirected(g, source_idx, indices[tid])
                      /\ source_idx # indices[tid]
                   THEN add_edge(g, source_idx, indices[tid])
                   ELSE g
         IN LayoutAddLinks(g2, indices, title_map, source_idx, Tail(links))

RECURSIVE LayoutSecondPass(_, _, _, _)
LayoutSecondPass(g, indices, title_map, cs) ==
    IF cs = <<>> THEN g
    ELSE LET card == Head(cs)
             g2 == IF card.id \in DOMAIN indices
                   THEN LayoutAddLinks(g, indices, title_map, indices[card.id], card.links)
                   ELSE g
         IN LayoutSecondPass(g2, indices, title_map, Tail(cs))

\* step 1 "Build Graph using petgraph": the node loop fills the same three
\* maps as the first pass of build_from_cards, node_states taking the place
\* of the metadata
LayoutGraph(cs) ==
    LET p1 == FirstPass([graph |-> NewGraph, indices |-> EmptyMap,
                         title_map |-> EmptyMap, meta_map |-> EmptyMap], cs)
    IN [graph |-> LayoutSecondPass(p1.graph, p1.indices, p1.title_map, cs),
        node_indices |-> p1.indices,
        title_to_id |-> p1.title_map,
        node_states |-> p1.meta_map]

\* graph.neighbors(idx) of the undirected graph
Neighbors(g, idx) ==
    {e[2] : e \in {d \in DOMAIN g.edges : d[1] = idx}}
    \cup {e[1] : e \in {d \in DOMAIN g.edges : d[2] = idx}}

\* graph.neighbors(idx) yields one entry for each edge at the node: the
\* length of the neighbors list
NeighborCount(g, idx) == out_degree(g, idx) + in_degree(g, idx)

\* compute_pagerank_for_cards: its own digraph, a node per card and an edge
\* per resolved reference to another node, repeated references included
RECURSIVE PagerankAddLinks(_, _, _, _, _)
PagerankAddLinks(g, di_indices, title_map, source_idx, links) ==
    IF links = <<>> THEN g
    ELSE LET tid == ResolveLink(di_indices, title_map, Head(links))
             g2 == IF tid # None /\ tid \in DOMAIN di_indices
                      /\ source_idx # di_indices[tid]
                   THEN add_edge(g, source_idx, di_indices[tid])
                   ELSE g
         IN PagerankAddLinks(g2, di_indices, title_map, source_idx, Tail(links))

RECURSIVE PagerankSecondPass(_, _, _, _)
PagerankSecondPass(g, di_indices, title_map, cs) ==
    IF cs = <<>> THEN g
    ELSE LET card == Head(cs)
             g2 == IF card.id \in DOMAIN di_indices
                   THEN PagerankAddLinks(g, di_indices, title_map,
                                         di_indices[card.id], card.links)
                   ELSE g
         IN PagerankSecondPass(g2, di_indices, title_map, Tail(cs))

\* the temporary digraph of compute_pagerank_for_cards
PagerankDigraph(cs, title_map) ==
    LET p1 == FirstPass([graph |-> NewGraph, indices |-> EmptyMap,
                         title_map |-> EmptyMap, meta_map |-> EmptyMap], cs)
    IN PagerankSecondPass(p1.graph, p1.indices, title_map, cs)

compute_pagerank_for_cards(cs, title_map) ==
    LET p1 == FirstPass([graph |-> NewGraph, indices |-> EmptyMap,
                         title_map |-> EmptyMap, meta_map |-> EmptyMap], cs)
        digraph == PagerankDigraph(cs, title_map)
    IN compute_pagerank(digraph, p1.indices, Damping, Iterations)

\* the nodes joined to a node of S by edges taken in either direction
RECURSIVE ConnectedTo(_, _)
ConnectedTo(g, S) ==
    LET T == S \cup UNION {Neighbors(g, i) : i \in S}
    IN IF T = S THEN S ELSE ConnectedTo(g, T)

\* petgraph's connected_components: their number
connected_components(g) ==
    Cardinality({ConnectedTo(g, {i}) : i \in 1..node_count(g)})

\* step 3: the loop over node_indices() from node idx on; each node not yet
\* visited opens the next cluster, and every node reached from it stores that
\* number under its id, over what the id had
RECURSIVE AssignClusters(_, _, _, _, _)
AssignClusters(g, idx, visited, cluster_assignment, current_cluster) ==
    IF idx > node_count(g) THEN cluster_assignment
    ELSE IF idx \in visited
    THEN AssignClusters(g, idx + 1, visited, cluster_assignment, current_cluster)
    ELSE LET reached == ConnectedTo(g, {idx})
             ids == {g.nodes[n] : n \in reached}
         IN AssignClusters(g, idx + 1, visited \cup reached,
                           [id \in DOMAIN cluster_assignment \cup ids |->
                               IF id \in ids THEN current_cluster
                               ELSE cluster_assignment[id]],
                           current_cluster + 1)

\* step 5 "Export Data": final_nodes, one per node_states key
final_nodes(cs) ==
    LET l == LayoutGraph(cs)
        g == l.graph
        pagerank == compute_pagerank_for_cards(cs, l.title_to_id)
        cluster_assignment == AssignClusters(g, 1, {}, EmptyMap, 0)
        neighbors(id) == {g.nodes[n] : n \in Neighbors(g, l.node_indices[id])}
    IN {[id |-> id,
         title |-> l.node_states[id].title,
         card_type |-> l.node_states[id].card_type,
         neighbors |-> neighbors(id),
         link_count |-> NeighborCount(g, l.node_indices[id]),
         importance |-> ScoreOf(pagerank, id),
         cluster_id |-> IF id \in DOMAIN cluster_assignment
                        THEN cluster_assignment[id] ELSE 0] :
          id \in DOMAIN l.node_states}

\* final_links: the endpoints' ids of every edge of the undirected graph
final_links(cs) ==
    LET g == LayoutGraph(cs).graph
    IN {<<g.nodes[e[1]], g.nodes[e[2]]>> : e \in DOMAIN g.edges}

\* the number of entries <<a, b>> of final_links
final_link_entries(cs, a, b) ==
    LET g == LayoutGraph(cs).graph
    IN SumOver(g.edges, {e \in DOMAIN g.edges : g.nodes[e[1]] = a /\ g.nodes[e[2]] = b})

\* the GraphData returned, without the coordinates
compute_layout(cs) ==
    LET l == LayoutGraph(cs)
    IN [nodes |-> final_nodes(cs),
        links |-> final_links(cs),
        cluster_count |-> connected_components(l.graph),
        orphan_count |-> Cardinality({id \in DOMAIN l.node_states :
                                        NeighborCount(l.graph, l.node_indices[id]) = 0})]

-----------------------------------------------------------------------------
(* Card lists *)

SeqsUpTo(S, n) == UNION {[1..k -> S] : k \in 0..n}

CardListItem(TitleSet, AliasLists, LinkLists) ==
    [id : Ids, title : TitleSet, card_type : CardTypes,
     aliases : AliasLists, links : LinkLists]

\* a card list with the link references `refs` (pairs <<card position, text>>)
\* pushed onto its cards in order
RECURSIVE WithLinks(_, _)
WithLinks(cs, refs) ==
    IF refs = <<>> THEN cs
    ELSE LET r == Head(refs)
         IN WithLinks([cs EXCEPT ![r[1]].links = Append(@, r[2])], Tail(refs))

\* `cards` is a list of n such cards that carries at most m references
Supplied(n, TitleSet, AliasLists, Texts, m) ==
    \E cs \in [1..n -> CardListItem(TitleSet, AliasLists, {<<>>})],
       refs \in SeqsUpTo((1..n) \X Texts, m) :
        cards = WithLinks(cs, refs)

-----------------------------------------------------------------------------
(* State *)

Returned(op, arg, val) == [op |-> op, arg |-> arg, val |-> val]

\* the threads of the concurrent specification and what each calls
Writers == {"w"}        \* rebuild_with_cards
Readers == {"q"}        \* get_backlinks
Threads == Writers \cup Readers

FieldNames == {"directed_graph", "node_indices", "title_to_id", "card_meta", "initialized"}

\* no call is under way and every field holds its constructor's value
ThreadsIdle ==
    /\ pc = [t \in Threads |-> 0]
    /\ local = [t \in Threads |->
                  IF t \in Writers THEN [built |-> build_from_cards(<<>>), n |-> 0]
                  ELSE [card_id |-> None, seen |-> EmptyMap]]
    /\ held = {}
    /\ installed = [f \in FieldNames |-> 0]
    /\ reads_wait = FALSE

\* GraphEngine::new
EngineNew ==
    /\ directed_graph = NewGraph
    /\ node_indices = EmptyMap
    /\ title_to_id = EmptyMap
    /\ card_meta = EmptyMap
    /\ initialized = FALSE

\* a rebuild that adds the new title and alias entries to the old ones
RebuildKeepingTitles(cs) ==
    /\ LET built == build_from_cards(cs)
       IN /\ directed_graph' = built.graph
          /\ node_indices' = built.indices
          /\ title_to_id' = [t \in DOMAIN built.title_map \cup DOMAIN title_to_id |->
                                IF t \in DOMAIN built.title_map
                                THEN built.title_map[t] ELSE title_to_id[t]]
          /\ card_meta' = built.meta_map
    /\ initialized' = TRUE
    /\ cards' = cs
    /\ ret' = Returned("rebuild_with_cards", None, "ok")

\* rebuild_with_cards(cs): build aside, then replace the five fields
RebuildWithCards(cs) ==
    /\ LET built == build_from_cards(cs)
       IN /\ directed_graph' = built.graph
          /\ node_indices' = built.indices
          /\ title_to_id' = built.title_map
          /\ card_meta' = built.meta_map
    /\ initialized' = TRUE
    /\ cards' = cs
    /\ ret' = Returned("rebuild_with_cards", None, "ok")

\* The queries call ensure_initialized and then only read the guarded
\* fields: what each returns in a state is the value of its operator on the
\* fields of that state.
GetBacklinks == EnsureInitialized /\ UNCHANGED <<cards, ret, calls, threads>>
ComputePagerank == EnsureInitialized /\ UNCHANGED <<cards, ret, calls, threads>>
GetClusters == EnsureInitialized /\ UNCHANGED <<cards, ret, calls, threads>>
GetOrphanNodes == EnsureInitialized /\ UNCHANGED <<cards, ret, calls, threads>>
GetImportanceRanking == EnsureInitialized /\ UNCHANGED <<cards, ret, calls, threads>>

\* get_graph_data lays out the supplied cards; the engine is not involved
ComputeLayout == UNCHANGED vars

Query ==
    \/ GetBacklinks \/ ComputePagerank \/ GetClusters \/ GetOrphanNodes
    \/ GetImportanceRanking \/ ComputeLayout

\* what the queries return in the current state
Backlinks(card_id) == get_backlinks(directed_graph, node_indices, card_meta, card_id)
Pagerank == compute_pagerank(directed_graph, node_indices, Damping, Iterations)
Clusters == get_clusters(directed_graph, node_indices)
Orphans == get_orphan_nodes(directed_graph, node_indices)
ImportanceRanking(limit) ==
    get_importance_ranking(directed_graph, node_indices, card_meta, limit)
Layout == compute_layout(cards)

-----------------------------------------------------------------------------
(* SpecBuild: a new engine and one card list, rebuilt and queried.  The     *)
(* lists: up to two cards with any id, title, alias and reference text and  *)
(* MaxLinks references, and three cards that name each other by id in up to *)
(* MaxLinks + 1 references (enough for a cycle through all three).          *)

InitBuild ==
    /\ EngineNew
    /\ \/ \E n \in 0..2 :
            Supplied(n, Titles, SeqsUpTo(Aliases, 1), LinkTexts, MaxLinks)
       \/ Supplied(3, {"B"}, {<<>>}, Ids, MaxLinks + 1)
    /\ ret = Returned("new", None, "ok")
    /\ calls = 0
    /\ ThreadsIdle

RebuildPending == RebuildWithCards(cards) /\ UNCHANGED <<calls, threads>>

NextBuild == RebuildPending \/ Query

SpecBuild == InitBuild /\ [][NextBuild]_vars

\* SpecSync: the same with the sync_index command, `cards` being the cards
\* of the vault.  The command indexes the cards for the search and then, if
\* the state holds a graph engine, calls its rebuild().
SyncIndex ==
    /\ RebuildEffect
    /\ ret' = Returned("sync_index", None, "ok")
    /\ UNCHANGED <<cards, calls, threads>>

NextSync == RebuildPending \/ SyncIndex \/ Query

SpecSync == InitBuild /\ [][NextSync]_vars

-----------------------------------------------------------------------------
(* Spec: any sequence of up to MaxCalls mutating calls on one engine, with  *)
(* queries in between                                                       *)

Fields == [graph |-> directed_graph, indices |-> node_indices,
           title_map |-> title_to_id, meta_map |-> card_meta]

SetFields(st) ==
    /\ directed_graph' = st.graph
    /\ node_indices' = st.indices
    /\ title_to_id' = st.title_map
    /\ card_meta' = st.meta_map

\* the card with the given id and the title "B", card a with the alias "U"
PlainCard(id) ==
    [id |-> id, title |-> "B", card_type |-> "permanent",
     aliases |-> IF id = "a" THEN <<"U">> ELSE <<>>, links |-> <<>>]

\* rebuild_with_cards with the cards a, b or a, b, c and at most one
\* reference, by id, title or alias
Rebuild ==
    /\ calls < MaxCalls
    /\ \E ids \in {<<"a", "b">>, <<"a", "b", "c">>} :
       \E refs \in SeqsUpTo((1..Len(ids)) \X (Ids \cup {"B", "U"}), 1) :
            RebuildWithCards(WithLinks([i \in 1..Len(ids) |-> PlainCard(ids[i])], refs))
    /\ calls' = calls + 1
    /\ UNCHANGED threads

\* update_card with any id and title, and up to MaxLinks references and
\* aliases together
UpdateCard ==
    /\ calls < MaxCalls
    /\ ensure_initialized
    /\ \E card_id \in Ids, title \in Titles,
          aliases \in SeqsUpTo(Aliases, 1), links \in SeqsUpTo({"b", "U"}, MaxLinks) :
        /\ Len(aliases) + Len(links) <= MaxLinks
        /\ LET st == update_card(Fields, card_id, links, title, aliases)
           IN /\ SetFields(st)
              /\ ret' = Returned("update_card", card_id,
                                 IF st.panicked THEN "panic" ELSE "ok")
    /\ initialized' = ensure_initialized_flag(initialized)
    /\ calls' = calls + 1
    /\ UNCHANGED <<cards, threads>>

RemoveCard ==
    /\ calls < MaxCalls
    /\ \E card_id \in Ids :
        /\ SetFields(remove_card(Fields, card_id))
        /\ ret' = Returned("remove_card", card_id, "ok")
    /\ calls' = calls + 1
    /\ UNCHANGED <<initialized, cards, threads>>

Init ==
    /\ EngineNew
    /\ cards = <<>>
    /\ ret = Returned("new", None, "ok")
    /\ calls = 0
    /\ ThreadsIdle

Next == Rebuild \/ UpdateCard \/ RemoveCard \/ Query

Spec == Init /\ [][Next]_vars

-----------------------------------------------------------------------------
(* SpecConc: a rebuild and a query on two threads, one lock operation a     *)
(* step.  `*self.f.write() = v` takes the write lock of f, stores and lets   *)
(* go in one statement; a query's read guards live to the end of the call.  *)

\* the order with the metadata stored first
ReplaceOrderMetaFirst ==
    <<"card_meta", "node_indices", "title_to_id", "directed_graph", "initialized">>

\* the order in which build_from_cards stores the five fields
ReplaceOrder ==
    <<"directed_graph", "node_indices", "title_to_id", "card_meta", "initialized">>

\* the order in which get_backlinks takes its read guards
ReadOrder == <<"directed_graph", "node_indices", "card_meta">>

\* the lists of the concurrent rebuilds: cards a and b, a with either title
\* and with or without a reference to b
ConcCards(title, links) ==
    <<[id |-> "a", title |-> title, card_type |-> "permanent",
       aliases |-> <<>>, links |-> links],
      PlainCard("b")>>

\* rebuild_with_cards(cs) up to the replacement: the build on local data
StartRebuild(t) ==
    /\ t \in Writers /\ pc[t] = 0
    /\ calls < MaxCalls
    /\ \E title \in Titles, links \in {<<>>, <<"b">>} :
        /\ cards' = ConcCards(title, links)
        /\ local' = [local EXCEPT ![t] = [built |-> build_from_cards(cards'),
                                          n |-> calls + 1]]
    /\ pc' = [pc EXCEPT ![t] = 1]
    /\ calls' = calls + 1
    /\ UNCHANGED <<engine, ret, held, installed, reads_wait>>

\* one statement of the replacement: the field next in ReplaceOrder, once
\* no read guard of it is alive
Replace(t) ==
    /\ t \in Writers /\ pc[t] \in 1..Len(ReplaceOrder)
    /\ LET f == ReplaceOrder[pc[t]]
           built == local[t].built
       IN /\ \A h \in held : h[2] # f
          /\ directed_graph' = IF f = "directed_graph" THEN built.graph ELSE directed_graph
          /\ node_indices' = IF f = "node_indices" THEN built.indices ELSE node_indices
          /\ title_to_id' = IF f = "title_to_id" THEN built.title_map ELSE title_to_id
          /\ card_meta' = IF f = "card_meta" THEN built.meta_map ELSE card_meta
          /\ initialized' = IF f = "initialized" THEN TRUE ELSE initialized
          /\ installed' = [installed EXCEPT ![f] = local[t].n]
    /\ IF pc[t] = Len(ReplaceOrder)
       THEN /\ pc' = [pc EXCEPT ![t] = 0]
            /\ ret' = Returned("rebuild_with_cards", None, "ok")
       ELSE /\ pc' = [pc EXCEPT ![t] = pc[t] + 1]
            /\ UNCHANGED ret
    /\ UNCHANGED <<cards, calls, local, held, reads_wait>>

\* get_backlinks(card_id) up to its first guard
StartQuery(t) ==
    /\ t \in Readers /\ pc[t] = 0
    /\ calls < MaxCalls
    /\ ensure_initialized
    /\ \E card_id \in {"a", "b"} :
        local' = [local EXCEPT ![t] = [card_id |-> card_id, seen |-> EmptyMap]]
    /\ pc' = [pc EXCEPT ![t] = 1]
    /\ calls' = calls + 1
    /\ UNCHANGED <<engine, cards, ret, held, installed, reads_wait>>

\* the read guard next in ReadOrder; `seen` notes whose value it guards
AcquireRead(t) ==
    /\ t \in Readers /\ pc[t] \in 1..Len(ReadOrder)
    /\ LET f == ReadOrder[pc[t]]
       IN /\ held' = held \cup {<<t, f>>}
          /\ local' = [local EXCEPT ![t].seen =
                          [g \in DOMAIN @ \cup {f} |-> IF g = f THEN installed[f] ELSE @[g]]]
    /\ pc' = [pc EXCEPT ![t] = pc[t] + 1]
    /\ UNCHANGED <<engine, cards, ret, calls, installed, reads_wait>>

\* the body of get_backlinks under its three guards, and their release
Answer(t) ==
    /\ t \in Readers /\ pc[t] = Len(ReadOrder) + 1
    /\ ret' = Returned("get_backlinks", local[t].card_id,
                       get_backlinks(directed_graph, node_indices, card_meta,
                                     local[t].card_id))
    /\ held' = {h \in held : h[1] # t}
    /\ pc' = [pc EXCEPT ![t] = 0]
    /\ UNCHANGED <<engine, cards, calls, local, installed, reads_wait>>

InitConc ==
    /\ EngineNew
    /\ cards = <<>>
    /\ ret = Returned("new", None, "ok")
    /\ calls = 0
    /\ ThreadsIdle

NextConc ==
    \E t \in Threads :
        StartRebuild(t) \/ Replace(t) \/ StartQuery(t) \/ AcquireRead(t) \/ Answer(t)

SpecConc == InitConc /\ [][NextConc]_vars

\* the same with every call that is under way scheduled until it returns;
\* whether another call is made is up to the callers
SpecConcFair ==
    SpecConc /\ \A t \in Threads : WF_vars(Replace(t) \/ AcquireRead(t) \/ Answer(t))

-----------------------------------------------------------------------------
(* SpecLock: the calls of three threads, one lock operation a step, with     *)
(* the write requests, the write guards of update_card and the read guards   *)
(* that compute_pagerank takes again inside get_importance_ranking and       *)
(* get_clusters.  std::sync::RwLock leaves open whether a read waits behind  *)
(* a waiting writer; reads_wait fixes it for a behaviour.                    *)

LockThreads == {"w", "r", "c"}

\* the method each thread calls
OpsOf(t) ==
    CASE t = "w" -> {"rebuild_with_cards", "update_card"}
      [] t = "r" -> {"get_importance_ranking"}
      [] t = "c" -> {"get_clusters"}
      [] t \in {"g", "h"} -> {"rebuild_with_cards"}

Ins(kind, field, level) == [kind |-> kind, field |-> field, level |-> level]

\* ensure_initialized: `initialized` read under a guard dropped at once
EnsureInitializedLocks == <<Ins("peek", "initialized", "none")>>

\* the three read guards of a query, alive until it returns
QueryLocks ==
    <<Ins("read", "directed_graph", "query"), Ins("read", "node_indices", "query"),
      Ins("read", "card_meta", "query")>>

\* compute_pagerank called by a query: its own guards, dropped at its return
PagerankLocks ==
    EnsureInitializedLocks
    \o <<Ins("read", "directed_graph", "pagerank"), Ins("read", "node_indices", "pagerank"),
         Ins("return", None, "pagerank")>>

\* `*self.f.write() = v` for each field: the call of write(), then the store
ReplaceLocks ==
    [i \in 1..(2 * Len(ReplaceOrder)) |->
        IF i % 2 = 1 THEN Ins("request", ReplaceOrder[(i + 1) \div 2], "none")
        ELSE Ins("store", ReplaceOrder[i \div 2], "none")]

\* the four write guards of update_card, alive until it returns
UpdateLocks ==
    <<Ins("request", "directed_graph", "none"), Ins("lock", "directed_graph", "none"),
      Ins("request", "node_indices", "none"), Ins("lock", "node_indices", "none"),
      Ins("request", "title_to_id", "none"), Ins("lock", "title_to_id", "none"),
      Ins("request", "card_meta", "none"), Ins("lock", "card_meta", "none")>>

\* the lock operations of a method in program order, the body last
Program(op) ==
    CASE op = "rebuild_with_cards" -> ReplaceLocks
      [] op = "update_card" ->
            EnsureInitializedLocks \o UpdateLocks \o <<Ins("body", None, "none")>>
      [] op = "get_importance_ranking" ->
            EnsureInitializedLocks \o QueryLocks \o PagerankLocks \o <<Ins("body", None, "none")>>
      [] op = "get_clusters" ->
            EnsureInitializedLocks \o QueryLocks \o PagerankLocks \o <<Ins("body", None, "none")>>

Running(t) == pc[t] # 0
Cur(t) == Program(local[t].op)[pc[t]]

\* thread u has called write() on f and has not got the lock yet
WaitsToWrite(u, f) ==
    Running(u) /\ Cur(u).kind \in {"store", "lock"} /\ Cur(u).field = f

CanRead(t, f) ==
    /\ \A h \in held : ~(h[2] = f /\ h[3] = "write")
    /\ reads_wait => \A u \in LockThreads \ {t} : ~WaitsToWrite(u, f)

\* a write lock that is given while read guards of the field are alive
CanWriteBesideReaders(t, f) == \A h \in held : ~(h[2] = f /\ h[3] = "write")

CanWrite(t, f) == \A h \in held : h[2] # f

Advance(t) == pc' = [pc EXCEPT ![t] = pc[t] + 1]

\* the arguments of the calls: two lists for a rebuild, two cards to update
LockArgs(op) ==
    CASE op = "rebuild_with_cards" -> {ConcCards("B", <<"b">>), ConcCards("b", <<>>)}
      [] op = "update_card" ->
            {[card_id |-> "a", links |-> <<"b">>, title |-> "b", aliases |-> <<>>],
             [card_id |-> "c", links |-> <<"a">>, title |-> "B", aliases |-> <<>>]}
      [] OTHER -> {None}

\* a thread enters a method; a rebuild builds on local data first
Call(t) ==
    /\ ~Running(t)
    /\ calls < MaxCalls
    /\ \E op \in OpsOf(t) : \E arg \in LockArgs(op) :
        /\ local' = [local EXCEPT ![t] =
                        [op |-> op, arg |-> arg, n |-> calls + 1,
                         built |-> build_from_cards(IF op = "rebuild_with_cards"
                                                    THEN arg ELSE <<>>)]]
        /\ cards' = IF op = "rebuild_with_cards" THEN arg ELSE cards
    /\ pc' = [pc EXCEPT ![t] = 1]
    /\ calls' = calls + 1
    /\ UNCHANGED <<engine, ret, held, installed, reads_wait>>

\* ensure_initialized; rebuild() does nothing, whatever the flag
PeekInitialized(t) ==
    /\ Running(t) /\ Cur(t).kind = "peek"
    /\ CanRead(t, Cur(t).field)
    /\ ensure_initialized
    /\ Advance(t)
    /\ UNCHANGED <<engine, cards, ret, calls, local, held, installed, reads_wait>>

ReadLock(t) ==
    /\ Running(t) /\ Cur(t).kind = "read"
    /\ CanRead(t, Cur(t).field)
    /\ held' = held \cup {<<t, Cur(t).field, Cur(t).level>>}
    /\ Advance(t)
    /\ UNCHANGED <<engine, cards, ret, calls, local, installed, reads_wait>>

\* compute_pagerank returns to the query and its guards go
ReturnInner(t) ==
    /\ Running(t) /\ Cur(t).kind = "return"
    /\ held' = {h \in held : ~(h[1] = t /\ h[3] = Cur(t).level)}
    /\ Advance(t)
    /\ UNCHANGED <<engine, cards, ret, calls, local, installed, reads_wait>>

WriteRequest(t) ==
    /\ Running(t) /\ Cur(t).kind = "request"
    /\ Advance(t)
    /\ UNCHANGED <<engine, cards, ret, calls, local, held, installed, reads_wait>>

\* the write lock is got, the field stored and the lock let go
WriteStore(t) ==
    /\ Running(t) /\ Cur(t).kind = "store"
    /\ LET f == Cur(t).field
           built == local[t].built
       IN /\ CanWrite(t, f)
          /\ directed_graph' = IF f = "directed_graph" THEN built.graph ELSE directed_graph
          /\ node_indices' = IF f = "node_indices" THEN built.indices ELSE node_indices
          /\ title_to_id' = IF f = "title_to_id" THEN built.title_map ELSE title_to_id
          /\ card_meta' = IF f = "card_meta" THEN built.meta_map ELSE card_meta
          /\ initialized' = IF f = "initialized" THEN TRUE ELSE initialized
          /\ installed' = [installed EXCEPT ![f] = local[t].n]
    /\ IF pc[t] = Len(Program(local[t].op))
       THEN /\ pc' = [pc EXCEPT ![t] = 0]
            /\ ret' = Returned("rebuild_with_cards", None, "ok")
       ELSE /\ Advance(t)
            /\ UNCHANGED ret
    /\ UNCHANGED <<cards, calls, local, held, reads_wait>>

WriteLock(t) ==
    /\ Running(t) /\ Cur(t).kind = "lock"
    /\ CanWrite(t, Cur(t).field)
    /\ held' = held \cup {<<t, Cur(t).field, "write">>}
    /\ Advance(t)
    /\ UNCHANGED <<engine, cards, ret, calls, local, installed, reads_wait>>

\* the body of the method under its guards, and their release at its return
Finish(t) ==
    /\ Running(t) /\ Cur(t).kind = "body"
    /\ IF local[t].op = "update_card"
       THEN LET a == local[t].arg
                st == update_card(Fields, a.card_id, a.links, a.title, a.aliases)
            IN /\ SetFields(st)
               /\ installed' = [f \in FieldNames |->
                                   IF f = "initialized" THEN installed[f] ELSE local[t].n]
               /\ ret' = Returned("update_card", a.card_id,
                                  IF st.panicked THEN "panic" ELSE "ok")
               /\ UNCHANGED initialized
       ELSE /\ ret' = Returned(local[t].op, None, "ok")
            /\ UNCHANGED <<engine, installed>>
    /\ held' = {h \in held : h[1] # t}
    /\ pc' = [pc EXCEPT ![t] = 0]
    /\ UNCHANGED <<cards, calls, local, reads_wait>>

\* every step of a call after its entry
Proceed(t) ==
    \/ PeekInitialized(t) \/ ReadLock(t) \/ ReturnInner(t)
    \/ WriteRequest(t) \/ WriteStore(t) \/ WriteLock(t) \/ Finish(t)

InitLock ==
    /\ EngineNew
    /\ cards = <<>>
    /\ ret = Returned("new", None, "ok")
    /\ calls = 0
    /\ pc = [t \in LockThreads |-> 0]
    /\ local = [t \in LockThreads |->
                  [op |-> None, arg |-> None, n |-> 0, built |-> build_from_cards(<<>>)]]
    /\ held = {}
    /\ installed = [f \in FieldNames |-> 0]
    /\ reads_wait \in BOOLEAN

NextLock == \E t \in LockThreads : Call(t) \/ Proceed(t)

\* a thread that can take its next step is scheduled in the end
SpecLock ==
    InitLock /\ [][NextLock]_vars /\ \A t \in LockThreads : WF_vars(Proceed(t))

\* SpecRace: two rebuild_graph commands, each on a thread of its own.  The
\* command clones the Arc of the engine out of the state's mutex and then
\* calls rebuild_with_cards with nothing held.
RaceThreads == {"g", "h"}

InitRace ==
    /\ EngineNew
    /\ cards = <<>>
    /\ ret = Returned("new", None, "ok")
    /\ calls = 0
    /\ pc = [t \in RaceThreads |-> 0]
    /\ local = [t \in RaceThreads |->
                  [op |-> None, arg |-> None, n |-> 0, built |-> build_from_cards(<<>>)]]
    /\ held = {}
    /\ installed = [f \in FieldNames |-> 0]
    /\ reads_wait \in BOOLEAN

NextRace == \E t \in RaceThreads : Call(t) \/ WriteRequest(t) \/ WriteStore(t)

SpecRace == InitRace /\ [][NextRace]_vars

-----------------------------------------------------------------------------
(* SpecAtomic: update_card or remove_card on thread "m" beside get_backlinks *)
(* on thread "o", on an engine that a rebuild has filled.  The mutator takes *)
(* its write guards one by one, changes the fields under them in the order   *)
(* of its code and lets all go at its return.                                *)

Mutators == {"m"}
Observers == {"o"}

\* the fields update_card and remove_card lock, in the order of the code
MutateOrder(op) ==
    IF op = "update_card"
    THEN <<"directed_graph", "node_indices", "title_to_id", "card_meta">>
    ELSE <<"directed_graph", "node_indices", "card_meta">>

\* the list the engine starts from: a, b, c with a reference from a to b
AtomicCards ==
    WithLinks(<<PlainCard("a"), PlainCard("b"), PlainCard("c")>>, <<<<1, "b">>>>)

MutateArgs(op) ==
    IF op = "update_card" THEN LockArgs("update_card")
    ELSE {[card_id |-> id] : id \in {"a", "b"}}

\* update_card or remove_card is entered (ensure_initialized finds the flag set)
MutCall(t) ==
    /\ t \in Mutators /\ pc[t] = 0
    /\ calls < MaxCalls
    /\ ensure_initialized
    /\ \E op \in {"update_card", "remove_card"} : \E arg \in MutateArgs(op) :
        local' = [local EXCEPT ![t] = [op |-> op, arg |-> arg, n |-> calls + 1,
                                       built |-> local[t].built]]
    /\ pc' = [pc EXCEPT ![t] = 1]
    /\ calls' = calls + 1
    /\ UNCHANGED <<engine, cards, ret, held, installed, reads_wait>>

\* the write guard next in MutateOrder; under the last one the method's
\* result is worked out from the fields as they are
MutLock(t) ==
    /\ t \in Mutators /\ pc[t] \in 1..Len(MutateOrder(local[t].op))
    /\ LET f == MutateOrder(local[t].op)[pc[t]]
           a == local[t].arg
       IN /\ CanWrite(t, f)
          /\ held' = held \cup {<<t, f, "write">>}
          /\ local' = IF pc[t] < Len(MutateOrder(local[t].op)) THEN local
                      ELSE [local EXCEPT ![t].built =
                              IF local[t].op = "update_card"
                              THEN update_card(Fields, a.card_id, a.links, a.title, a.aliases)
                              ELSE remove_card(Fields, a.card_id) @@ [panicked |-> FALSE]]
    /\ pc' = [pc EXCEPT ![t] = pc[t] + 1]
    /\ UNCHANGED <<engine, cards, ret, calls, installed, reads_wait>>

\* the method changes the field next in MutateOrder under its guards
MutApply(t) ==
    /\ t \in Mutators
    /\ pc[t] \in (Len(MutateOrder(local[t].op)) + 1)..(2 * Len(MutateOrder(local[t].op)))
    /\ LET f == MutateOrder(local[t].op)[pc[t] - Len(MutateOrder(local[t].op))]
           built == local[t].built
       IN /\ <<t, f, "write">> \in held
          /\ directed_graph' = IF f = "directed_graph" THEN built.graph ELSE directed_graph
          /\ node_indices' = IF f = "node_indices" THEN built.indices ELSE node_indices
          /\ title_to_id' = IF f = "title_to_id" THEN built.title_map ELSE title_to_id
          /\ card_meta' = IF f = "card_meta" THEN built.meta_map ELSE card_meta
          /\ installed' = [installed EXCEPT ![f] = local[t].n]
    /\ pc' = [pc EXCEPT ![t] = pc[t] + 1]
    /\ UNCHANGED <<initialized, cards, ret, calls, local, held, reads_wait>>

\* the method returns, or unwinds from a panic, and its guards go
MutReturn(t) ==
    /\ t \in Mutators /\ pc[t] = 2 * Len(MutateOrder(local[t].op)) + 1
    /\ held' = {h \in held : h[1] # t}
    /\ ret' = Returned(local[t].op, local[t].arg.card_id,
                       IF local[t].built.panicked THEN "panic" ELSE "ok")
    /\ pc' = [pc EXCEPT ![t] = 0]
    /\ UNCHANGED <<engine, cards, calls, local, installed, reads_wait>>

\* get_backlinks(card_id) up to its first guard
ObsCall(t) ==
    /\ t \in Observers /\ pc[t] = 0
    /\ calls < MaxCalls
    /\ ensure_initialized
    /\ \E card_id \in {"a", "b"} :
        local' = [local EXCEPT ![t] = [card_id |-> card_id, seen |-> EmptyMap]]
    /\ pc' = [pc EXCEPT ![t] = 1]
    /\ calls' = calls + 1
    /\ UNCHANGED <<engine, cards, ret, held, installed, reads_wait>>

\* the read guard next in ReadOrder, once no write guard of the field is
\* alive; `seen` notes the call whose value it guards
ObsRead(t) ==
    /\ t \in Observers /\ pc[t] \in 1..Len(ReadOrder)
    /\ LET f == ReadOrder[pc[t]]
       IN /\ CanRead(t, f)
          /\ held' = held \cup {<<t, f, "query">>}
          /\ local' = [local EXCEPT ![t].seen =
                          [g \in DOMAIN @ \cup {f} |-> IF g = f THEN installed[f] ELSE @[g]]]
    /\ pc' = [pc EXCEPT ![t] = pc[t] + 1]
    /\ UNCHANGED <<engine, cards, ret, calls, installed, reads_wait>>

\* the body of get_backlinks under its three guards, and their release
ObsAnswer(t) ==
    /\ t \in Observers /\ pc[t] = Len(ReadOrder) + 1
    /\ ret' = Returned("get_backlinks", local[t].card_id,
                       get_backlinks(directed_graph, node_indices, card_meta,
                                     local[t].card_id))
    /\ held' = {h \in held : h[1] # t}
    /\ pc' = [pc EXCEPT ![t] = 0]
    /\ UNCHANGED <<engine, cards, calls, local, installed, reads_wait>>

InitAtomic ==
    /\ cards = AtomicCards
    /\ \E built \in {build_from_cards(AtomicCards)} :
        /\ directed_graph = built.graph
        /\ node_indices = built.indices
        /\ title_to_id = built.title_map
        /\ card_meta = built.meta_map
        /\ local = [t \in Mutators \cup Observers |->
                      IF t \in Mutators
                      THEN [op |-> None, arg |-> None, n |-> 0,
                            built |-> built @@ [panicked |-> FALSE]]
                      ELSE [card_id |-> None, seen |-> EmptyMap]]
    /\ initialized = TRUE
    /\ ret = Returned("rebuild_with_cards", None, "ok")
    /\ calls = 0
    /\ pc = [t \in Mutators \cup Observers |-> 0]
    /\ held = {}
    /\ installed = [f \in FieldNames |-> 0]
    /\ reads_wait = FALSE

NextAtomic ==
    \/ \E t \in Mutators : MutCall(t) \/ MutLock(t) \/ MutApply(t) \/ MutReturn(t)
    \/ \E t \in Observers : ObsCall(t) \/ ObsRead(t) \/ ObsAnswer(t)

SpecAtomic == InitAtomic /\ [][NextAtomic]_vars

-----------------------------------------------------------------------------
(* Vocabulary of the properties *)

Max(S) == CHOOSE x \in S : \A y \in S : y <= x

\* the latest call was rebuild_with_cards(cards) and it has returned
Built == ret.op = "rebuild_with_cards"

CardIds == {cards[i].id : i \in 1..Len(cards)}
CardsWithId(id) == {i \in 1..Len(cards) : cards[i].id = id}

\* the positions <<card, reference>> of all link references of `cards`
LinkRefs == UNION {{<<i, k>> : k \in 1..Len(cards[i].links)} : i \in 1..Len(cards)}
LinkText(p) == cards[p[1]].links[p[2]]

\* the id a reference text stands for: a supplied id first, else the owner
\* the resolution index gives it, else nothing
Target(r) ==
    IF r \in CardIds THEN r
    ELSE IF r \in DOMAIN title_to_id THEN title_to_id[r]
    ELSE None

\* some reference of card i resolves to the id `to`
LinksTo(i, to) == \E k \in 1..Len(cards[i].links) : Target(cards[i].links[k]) = to

\* the edges that the references of `cards` stand for, as pairs of ids
ExpectedEdges ==
    {<<cards[p[1]].id, Target(LinkText(p))>> :
        p \in {q \in LinkRefs : /\ Target(LinkText(q)) # None
                                /\ Target(LinkText(q)) # cards[q[1]].id}}

\* the edges of the engine's graph, as pairs of node weights
EdgeIds ==
    {<<directed_graph.nodes[e[1]], directed_graph.nodes[e[2]]>> :
        e \in DOMAIN directed_graph.edges}

BacklinkIds(card_id) == {b.id : b \in Backlinks(card_id)}

-----------------------------------------------------------------------------
(* C1: backlinks mirror the resolved links *)

\* C1 as stated: after a rebuild, for all cards A and B of the list,
\* get_backlinks(B) has an entry with id A iff some reference of A resolves
\* to B's id.
C1_BacklinksIffLinkAnyPair ==
    Built =>
        \A i, j \in 1..Len(cards) :
            (cards[i].id \in BacklinkIds(cards[j].id)) <=> LinksTo(i, cards[j].id)

\* C1 as amended: after a rebuild, for all distinct ids A and B of the list,
\* get_backlinks(B) has an entry with id A iff some reference of a card with
\* id A resolves to B; and get_backlinks(B) holds no other entry.
C1_BacklinksIffLink ==
    Built =>
        \A B \in CardIds :
            BacklinkIds(B) =
                {A \in CardIds \ {B} : \E i \in CardsWithId(A) : LinksTo(i, B)}

\* a chain x -> y -> z has been built: z has the backlink y and not x
C1_Witness ==
    /\ Built
    /\ \E x, y, z \in CardIds :
        /\ x # y /\ y # z /\ x # z
        /\ BacklinkIds(y) = {x}
        /\ BacklinkIds(z) = {y}

-----------------------------------------------------------------------------
(* C2: one node per distinct id *)

\* C2: after a rebuild of any card list, also one that repeats an id, the
\* graph has as many nodes as the list has distinct ids.
C2_NodeCountIsDistinctIds ==
    Built => node_count(directed_graph) = Cardinality(CardIds)

-----------------------------------------------------------------------------
(* C3: no edge from a node to itself *)

\* the references card `id` was last updated with that resolve to the card
SelfReferences(id) ==
    {k \in 1..Len(card_meta[id].links) :
        ResolveLink(node_indices, title_to_id, card_meta[id].links[k]) = id}

\* C3: in every state of the engine no edge leaves and enters the same node,
\* after a rebuild no edge joins a card id to itself, and no link that
\* compute_layout exports joins an id to itself.
C3_NoSelfLoop ==
    /\ \A e \in DOMAIN directed_graph.edges : e[1] # e[2]
    /\ Built => \A e \in EdgeIds : e[1] # e[2]
    /\ \A l \in final_links(cards) : l[1] # l[2]

\* update_card has returned for a card with a reference that resolves to the
\* card itself through its alias and a reference that gave an edge, and the
\* supplied list has a card that refers to itself too
C3_Witness ==
    /\ ret.op = "update_card" /\ ret.val = "ok"
    /\ ret.arg \in DOMAIN card_meta /\ ret.arg \in DOMAIN node_indices
    /\ \E k \in SelfReferences(ret.arg) : card_meta[ret.arg].links[k] \in Aliases
    /\ \E e \in DOMAIN directed_graph.edges : e[1] = node_indices[ret.arg]
    /\ \E p \in LinkRefs : Target(LinkText(p)) = cards[p[1]].id

-----------------------------------------------------------------------------
(* C4: at most one edge per ordered pair *)

\* C4: in every state of the engine, whatever calls came before, an ordered
\* pair of nodes is joined by at most one edge.
C4_AtMostOneEdge ==
    \A e \in DOMAIN directed_graph.edges : directed_graph.edges[e] <= 1

-----------------------------------------------------------------------------
(* C5: resolution order of a reference *)

\* the exact strings the cards carry as title or alias
TitleOrAliasOf(i) == {cards[i].title} \cup Range(cards[i].aliases)

\* C5: a rebuild returns normally and its edges are exactly those of the
\* references resolved id first, then through the title/alias index, a
\* reference found in neither giving no edge; the index maps exactly the
\* title and alias strings of the cards, each to a card that carries it.
C5_ResolutionOrder ==
    Built =>
        /\ ret.val = "ok"
        /\ EdgeIds = ExpectedEdges
        /\ DOMAIN title_to_id = UNION {TitleOrAliasOf(i) : i \in 1..Len(cards)}
        /\ \A t \in DOMAIN title_to_id :
             \E i \in 1..Len(cards) :
                t \in TitleOrAliasOf(i) /\ title_to_id[t] = cards[i].id

\* a reference that is the id of one card and the title of another card has
\* produced the edge to the card with that id, and another reference of the
\* list has matched nothing
C5_Witness ==
    /\ Built
    /\ \E p \in LinkRefs :
        /\ LinkText(p) \in CardIds
        /\ LinkText(p) \in DOMAIN title_to_id
        /\ title_to_id[LinkText(p)] # LinkText(p)
        /\ <<cards[p[1]].id, LinkText(p)>> \in EdgeIds
        /\ <<cards[p[1]].id, title_to_id[LinkText(p)]>> \notin EdgeIds
    /\ \E p \in LinkRefs : Target(LinkText(p)) = None

-----------------------------------------------------------------------------
(* C6: a rebuild leaves nothing of the earlier state *)

\* the last card of the list that carries a title or alias
Owner(t) == cards[Max({i \in 1..Len(cards) : t \in TitleOrAliasOf(i)})].id

\* the target of a reference by the list alone
TargetByList(r) ==
    IF r \in CardIds THEN r
    ELSE IF \E i \in 1..Len(cards) : r \in TitleOrAliasOf(i) THEN Owner(r)
    ELSE None

\* C6: when rebuild_with_cards(cards) has returned, whatever calls came
\* before it, all five fields are what the list alone determines: one node
\* per card in list order, every id indexed at its last card, every title and
\* alias owned by the last card that carries it, the metadata of the last
\* card of each id, and one edge for each pair of distinct cards joined by a
\* reference.
C6_RebuildIsFunctionOfCards ==
    Built =>
        /\ initialized
        /\ directed_graph.nodes = [i \in 1..Len(cards) |-> cards[i].id]
        /\ node_indices = [id \in CardIds |-> Max(CardsWithId(id))]
        /\ title_to_id = [t \in UNION {TitleOrAliasOf(i) : i \in 1..Len(cards)} |-> Owner(t)]
        /\ card_meta = [id \in CardIds |-> NewCardMeta(cards[Max(CardsWithId(id))])]
        /\ DOMAIN directed_graph.edges =
              {<<node_indices[cards[p[1]].id], node_indices[TargetByList(LinkText(p))]>> :
                  p \in {q \in LinkRefs : /\ TargetByList(LinkText(q)) # None
                                          /\ TargetByList(LinkText(q)) # cards[q[1]].id}}
        /\ \A e \in DOMAIN directed_graph.edges : directed_graph.edges[e] = 1

\* a rebuild has returned as the third call; its list refers to the id c,
\* which it does not have, and so only an entry left over could resolve it
C6_Witness ==
    /\ Built
    /\ calls = MaxCalls
    /\ \E p \in LinkRefs : LinkText(p) = "c" /\ TargetByList(LinkText(p)) = None
    /\ directed_graph.edges = EmptyMap

-----------------------------------------------------------------------------
(* C7: a query beside a rebuild reads a torn state, the graph ahead *)

\* the number of the rebuild whose value thread q found under its guard of f
Seen(q, f) == local[q].seen[f]

\* C7: the values a query finds under its three guards need not be of one
\* rebuild, and when they are not, the graph is of a later rebuild than the
\* node index or the metadata, never of an earlier one.
C7_TornViewHasNewerGraph ==
    \A q \in Readers :
        /\ "node_indices" \in DOMAIN local[q].seen =>
              Seen(q, "directed_graph") >= Seen(q, "node_indices")
        /\ "card_meta" \in DOMAIN local[q].seen =>
              Seen(q, "node_indices") >= Seen(q, "card_meta")

\* get_backlinks has answered from the graph of the rebuild under way and the
\* metadata of the rebuild before it: the entry for a card bears a title that
\* the card does not have in the list of the graph
C7_Witness ==
    \E q \in Readers :
        /\ pc[q] = 0 /\ ret.op = "get_backlinks"
        /\ DOMAIN local[q].seen = Range(ReadOrder)
        /\ Seen(q, "card_meta") >= 1
        /\ Seen(q, "directed_graph") > Seen(q, "card_meta")
        /\ \E w \in Writers : local[w].n = Seen(q, "directed_graph")
        /\ \E b \in ret.val : \E i \in 1..Len(cards) :
              cards[i].id = b.id /\ cards[i].title # b.title

-----------------------------------------------------------------------------
(* C8: the clusters partition the card ids *)

ClustersHolding(id) == {k \in 1..Len(Clusters) : id \in Range(Clusters[k].nodes)}

\* C8: after a rebuild every card id is in the nodes list of exactly one
\* cluster (and once in it), each cluster's size is the length of its nodes
\* list, and a card without edges is alone in its cluster.
C8_ClustersPartitionIds ==
    Built =>
        /\ \A id \in CardIds :
            /\ Cardinality(ClustersHolding(id)) = 1
            /\ \A k \in ClustersHolding(id) :
                 Cardinality({n \in 1..Len(Clusters[k].nodes) :
                                 Clusters[k].nodes[n] = id}) = 1
        /\ \A k \in 1..Len(Clusters) :
            /\ Clusters[k].size = Len(Clusters[k].nodes)
            /\ Range(Clusters[k].nodes) \subseteq CardIds
        /\ \A id \in CardIds :
             (\A e \in ExpectedEdges : id # e[1] /\ id # e[2]) =>
                \A k \in ClustersHolding(id) : Clusters[k].size = 1

-----------------------------------------------------------------------------
(* C9: orphans are the ids without edges *)

\* C9: after a rebuild get_orphan_nodes returns exactly the ids of the list
\* that no resolved reference leaves and none enters.
C9_OrphansExact ==
    Built =>
        Orphans = {id \in CardIds : \A e \in ExpectedEdges : id # e[1] /\ id # e[2]}

\* built: one edge x -> y, so x has only an outgoing and y only an incoming
\* edge and neither is returned, while a third card is
C9_Witness ==
    /\ Built
    /\ \E x, y \in CardIds :
        /\ x # y
        /\ EdgeIds = {<<x, y>>}
        /\ x \notin Orphans /\ y \notin Orphans
        /\ Orphans # {}

-----------------------------------------------------------------------------
(* C10: PageRank scores sum to one *)

Tolerance == Scale \div 1000

ScoreSum == SumOver(Pagerank, DOMAIN Pagerank)

\* C10: after a rebuild with at least one card the scores of
\* compute_pagerank(0.85, 20) sum to 1.0 within the tolerance.
C10_PagerankSumsToOne ==
    (Built /\ node_count(directed_graph) >= 1) =>
        /\ ScoreSum >= Scale - Tolerance
        /\ ScoreSum <= Scale + Tolerance

-----------------------------------------------------------------------------
(* C11: the clusters of the layout against the strongly connected components *)

\* card ids x and y are each reachable from the other along the engine's edges
MutuallyReachable(x, y) ==
    /\ node_indices[y] \in ReachableFrom(directed_graph, {node_indices[x]})
    /\ node_indices[x] \in ReachableFrom(directed_graph, {node_indices[y]})

\* C11: for a list that has been built, two nodes of compute_layout's output
\* bear the same cluster_id iff each card is reachable from the other along
\* directed edges, and cluster_count is the number of clusters get_clusters
\* returns.
C11_LayoutClustersAreSccs ==
    Built =>
        /\ \A m, n \in Layout.nodes :
              (m.cluster_id = n.cluster_id) <=> MutuallyReachable(m.id, n.id)
        /\ Layout.cluster_count = Len(Clusters)

-----------------------------------------------------------------------------
(* C12: no operation panics *)

\* C12: whatever calls are made, with whatever arguments, each returns
\* normally: none ends in a panic.
C12_NoPanic == ret.val # "panic"

-----------------------------------------------------------------------------
(* C13: every call returns *)

\* C13: a call that a thread has entered returns in the end, whatever the
\* interleaving with the other threads' calls and whether or not reads wait
\* behind a waiting writer.
C13_EveryCallReturns ==
    \A t \in LockThreads : Running(t) ~> ~Running(t)

-----------------------------------------------------------------------------
(* C14: the resolution index against the cards of the engine *)

\* C14: in every state of the engine each entry of the resolution index maps
\* a string to a card that is in the engine (indexed, with metadata) and
\* that has the string as its title or as one of its aliases.
C14_TitleIndexIsCurrent ==
    \A t \in DOMAIN title_to_id :
        LET id == title_to_id[t]
        IN /\ id \in DOMAIN node_indices
           /\ id \in DOMAIN card_meta
           /\ t = card_meta[id].title \/ t \in Range(card_meta[id].aliases)

-----------------------------------------------------------------------------
(* C15: metadata, nodes and node index hold the same ids *)

\* C15: after every call that has returned normally the ids with metadata
\* are the ids stored as nodes of the graph and the keys of the node index.
C15_MetaKeysAreNodeIds ==
    ret.val = "ok" =>
        /\ DOMAIN card_meta = Range(directed_graph.nodes)
        /\ DOMAIN card_meta = DOMAIN node_indices

-----------------------------------------------------------------------------
(* C16: of two cards with one title or alias, the later one is referred to *)

\* the strings that two cards of the list carry and that are no card's id
SharedStrings ==
    {t \in UNION {TitleOrAliasOf(i) : i \in 1..Len(cards)} :
        /\ t \notin CardIds
        /\ \E i, j \in 1..Len(cards) :
              i < j /\ t \in TitleOrAliasOf(i) /\ t \in TitleOrAliasOf(j)}

\* some reference of card i other than the text s resolves to the id `to`
LinksToOtherwise(i, s, to) ==
    \E k \in 1..Len(cards[i].links) :
        cards[i].links[k] # s /\ TargetByList(cards[i].links[k]) = to

\* C16: after a rebuild a string that two cards carry as title or alias, and
\* that is no card's id, belongs to the last card that carries it: every
\* reference to it from another card gives the edge to that card, and gives
\* no edge to an earlier card that carries it.
C16_LastWriterWins ==
    Built =>
        \A s \in SharedStrings :
            /\ title_to_id[s] = Owner(s)
            /\ \A p \in {q \in LinkRefs : LinkText(q) = s} :
                LET from == cards[p[1]].id
                IN /\ from # Owner(s) => <<from, Owner(s)>> \in EdgeIds
                   /\ \A i \in 1..Len(cards) :
                        (/\ s \in TitleOrAliasOf(i)
                         /\ cards[i].id # Owner(s)
                         /\ <<from, cards[i].id>> \in EdgeIds)
                        => LinksToOtherwise(p[1], s, cards[i].id)

\* built: the first card refers to a title that the two cards after it share;
\* the edge goes to the last card and none goes to the one in between
C16_Witness ==
    /\ Built
    /\ Len(cards) = 3
    /\ \E s \in SharedStrings :
        /\ s \in TitleOrAliasOf(2) /\ s \in TitleOrAliasOf(3)
        /\ \E p \in LinkRefs : p[1] = 1 /\ LinkText(p) = s
        /\ <<cards[1].id, cards[3].id>> \in EdgeIds
        /\ <<cards[1].id, cards[2].id>> \notin EdgeIds

-----------------------------------------------------------------------------
(* C17: the importance ranking *)

\* the ids of the vector r
RankedIds(r) == {r[k].id : k \in DOMAIN r}

\* C17: on an engine that has been built, for every limit, every vector that
\* get_importance_ranking can return (the entries it collects, sorted and
\* cut at the limit) has min(limit, number of card ids)
\* entries, of different cards, in non-increasing order of score; no card
\* left out has a higher PageRank score than one that is in; and each entry
\* bears its card's score and the numbers of edges into and out of its node.
C17_RankingIsSortedPrefix ==
    Built =>
        \A pr \in {Pagerank} : \A E \in {ExpectedEdges} :
        \A entries \in {ImportanceEntries(directed_graph, node_indices, card_meta)} :
        \A limit \in 0..MaxLimit : \A rs \in {Rankings(entries, limit)} :
            /\ rs # {}
            /\ \A r \in rs :
                /\ Len(r) = IF limit < Cardinality(CardIds) THEN limit
                            ELSE Cardinality(CardIds)
                /\ Cardinality(RankedIds(r)) = Len(r)
                /\ RankedIds(r) \subseteq CardIds
                /\ \A i, j \in DOMAIN r : i < j => r[i].score >= r[j].score
                /\ \A k \in DOMAIN r :
                    /\ r[k].score = pr[r[k].id]
                    /\ \A id \in CardIds \ RankedIds(r) : pr[id] <= r[k].score
                    /\ r[k].inbound_links = Cardinality({e \in E : e[2] = r[k].id})
                    /\ r[k].outbound_links = Cardinality({e \in E : e[1] = r[k].id})

\* built from three cards: a ranking cut at two entries begins with a card
\* that is referred to and scores higher than the second, and leaves one out
C17_Witness ==
    /\ Built
    /\ Cardinality(CardIds) = 3
    /\ \E r \in ImportanceRanking(2) :
        /\ Len(r) = 2
        /\ r[1].score > r[2].score
        /\ r[1].inbound_links >= 1
        /\ r[2].outbound_links >= 1

-----------------------------------------------------------------------------
(* C18: the empty engine *)

\* the engine holds no card: it was never rebuilt, or rebuilt from no cards
EngineEmpty == ~Built \/ cards = <<>>

\* C18: on an engine that was never rebuilt, and after a rebuild from the
\* empty card list, no call has panicked and every query answers with an
\* empty collection: compute_pagerank the empty map, get_clusters no cluster,
\* get_orphan_nodes no id, get_importance_ranking the empty vector for every
\* limit, get_backlinks no entry for every card id.
C18_EmptyEngineAnswersEmpty ==
    EngineEmpty =>
        /\ ret.val # "panic"
        /\ Pagerank = EmptyMap
        /\ Clusters = <<>>
        /\ Orphans = {}
        /\ \A limit \in 0..MaxLimit : ImportanceRanking(limit) = {<<>>}
        /\ \A card_id \in Ids : Backlinks(card_id) = {}

\* rebuild_with_cards has returned from the empty list, and the engine is
\* marked initialized over an empty graph
C18_Witness ==
    /\ Built
    /\ cards = <<>>
    /\ initialized
    /\ node_count(directed_graph) = 0
    /\ Clusters = <<>>

-----------------------------------------------------------------------------
(* C19: forward references *)

\* the list with the cards at positions i and j in each other's place
Swap(cs, i, j) ==
    [k \in 1..Len(cs) |-> IF k = i THEN cs[j] ELSE IF k = j THEN cs[i] ELSE cs[k]]

\* the id, the title and the aliases of a card
NamesOf(card) == {card.id, card.title} \cup Range(card.aliases)

\* the edges of a graph, as pairs of node weights
EdgeIdsOf(g) == {<<g.nodes[e[1]], g.nodes[e[2]]>> : e \in DOMAIN g.edges}

\* the edges a rebuild from the list cs gives
EdgesBuiltFrom(cs) == UNION {EdgeIdsOf(st.graph) : st \in {build_from_cards(cs)}}

\* the id a reference text stands for in a rebuild from the list cs
TargetIn(cs, r) ==
    CHOOSE t \in {ResolveLink(st.indices, st.title_map, r) :
                    st \in {build_from_cards(cs)}} : TRUE

\* card i refers to the later card j by one of its names
RefersForward(i, j) ==
    /\ i < j
    /\ cards[i].id # cards[j].id
    /\ \E k \in 1..Len(cards[i].links) : cards[i].links[k] \in NamesOf(cards[j])

\* C19 as stated: after a rebuild, when card i refers by id, title or alias
\* to a card at a later position j, the edge from i to j is in the graph
\* exactly when it is in the graph built from the list with the two cards in
\* each other's place.
C19_ForwardEdgeAsIfSwapped ==
    Built =>
        \A i, j \in 1..Len(cards) :
            RefersForward(i, j) =>
                (<<cards[i].id, cards[j].id>> \in EdgeIds
                    <=> <<cards[i].id, cards[j].id>> \in EdgesBuiltFrom(Swap(cards, i, j)))

\* C19 as amended: after a rebuild, when a reference of card i resolves,
\* against the whole list, to the id of a card at a later position j, the
\* edge from i to j is in the graph; and it is in the graph built from the
\* list with the two cards in each other's place exactly when it is in this
\* one, provided every reference of card i resolves there to the same id.
C19_ForwardEdge ==
    Built =>
        \A i, j \in 1..Len(cards) :
            (i < j /\ cards[i].id # cards[j].id) =>
                /\ LinksTo(i, cards[j].id) => <<cards[i].id, cards[j].id>> \in EdgeIds
                /\ (\A k \in 1..Len(cards[i].links) :
                        TargetIn(Swap(cards, i, j), cards[i].links[k])
                            = Target(cards[i].links[k]))
                    => (<<cards[i].id, cards[j].id>> \in EdgeIds
                          <=> <<cards[i].id, cards[j].id>>
                                \in EdgesBuiltFrom(Swap(cards, i, j)))

\* the first card refers to the second by a title that is no id and that it
\* does not bear itself, and the edge is there in either order
C19_Witness ==
    /\ Built
    /\ Len(cards) >= 2
    /\ cards[2].title \notin CardIds
    /\ cards[2].title \notin NamesOf(cards[1])
    /\ cards[2].title \in Range(cards[1].links)
    /\ <<cards[1].id, cards[2].id>> \in EdgeIds
    /\ <<cards[1].id, cards[2].id>> \in EdgesBuiltFrom(Swap(cards, 1, 2))

-----------------------------------------------------------------------------
(* C20: clusters are strongly connected components *)

\* a directed path over the edges E leads from the card x to the card y
PathOver(E, x, y) ==
    \E n \in 2..(Cardinality(Ids) + 1) :
        \E p \in [1..n -> Ids] :
            /\ p[1] = x
            /\ p[n] = y
            /\ \A k \in 1..(n - 1) : <<p[k], p[k + 1]>> \in E

PathExists(x, y) == PathOver(EdgeIds, x, y)

\* the clusters cl list the cards x and y in one cluster
TogetherIn(cl, x, y) == \E k \in 1..Len(cl) : {x, y} \subseteq Range(cl[k].nodes)

InSameCluster(x, y) == TogetherIn(Clusters, x, y)

-----------------------------------------------------------------------------
(* C21: the layout graph is the undirected collapse *)

\* some reference of a card with id a resolves to the id b
Refers(a, b) == \E i \in CardsWithId(a) : LinksTo(i, b)

\* C21: for a list that has been built, compute_layout's links hold one
\* entry, in one of the two orders, for each pair of different cards of which
\* one refers to the other, and no entry for any other pair; a node lists
\* another as neighbor iff that one lists it; link_count is the number of a
\* node's neighbors; and orphan_count is the number of nodes without one.
C21_LayoutIsUndirectedCollapse ==
    Built =>
        \A lay \in {Layout} :
            /\ \A a, b \in CardIds :
                  final_link_entries(cards, a, b) + final_link_entries(cards, b, a)
                     = IF a # b /\ (Refers(a, b) \/ Refers(b, a)) THEN 1 ELSE 0
            /\ \A m, n \in lay.nodes : (n.id \in m.neighbors) <=> (m.id \in n.neighbors)
            /\ \A m \in lay.nodes : m.link_count = Cardinality(m.neighbors)
            /\ lay.orphan_count = Cardinality({m \in lay.nodes : m.neighbors = {}})

\* three cards laid out: two refer to each other and share one link, the
\* third has no neighbor and is the one orphan
C21_Witness ==
    /\ Built
    /\ \E a, b, c \in CardIds :
        /\ a # b /\ a # c /\ b # c
        /\ Refers(a, b) /\ Refers(b, a)
        /\ final_link_entries(cards, a, b) + final_link_entries(cards, b, a) = 1
        /\ \E m \in final_nodes(cards) : m.id = c /\ m.neighbors = {} /\ m.link_count = 0
        /\ \E m \in final_nodes(cards) : m.id = a /\ m.neighbors = {b} /\ m.link_count = 1

-----------------------------------------------------------------------------
(* C22: queries change nothing *)

\* C22: a step of get_backlinks, compute_pagerank, get_importance_ranking,
\* get_clusters or get_orphan_nodes, on an engine built or not, leaves the
\* directed graph, the node-index map, the resolution index, the metadata
\* map and the initialized flag as they were.
C22_QueriesChangeNothing ==
    [][(GetBacklinks \/ ComputePagerank \/ GetImportanceRanking
          \/ GetClusters \/ GetOrphanNodes) => UNCHANGED engine]_vars

\* an engine that update_card has filled without any rebuild: the flag is
\* still unset, the graph has an edge, and the queries can run on it
C22_Witness ==
    /\ ~initialized
    /\ ret.op = "update_card"
    /\ DOMAIN directed_graph.edges # {}
    /\ Backlinks("b") # {}
    /\ ENABLED GetBacklinks
    /\ ENABLED GetClusters

-----------------------------------------------------------------------------
(* C23: the torn state with the metadata ahead *)

\* thread q holds its guards of the graph and of the metadata, and found
\* under them the metadata of a later rebuild than the graph
ReverseTorn(q) ==
    /\ {"directed_graph", "card_meta"} \subseteq DOMAIN local[q].seen
    /\ Seen(q, "card_meta") > Seen(q, "directed_graph")

\* C23 as stated: with the rebuilds one after the other and one query beside
\* them, the query comes to read the metadata map of a later rebuild than the
\* directed graph it reads.
C23_ReverseTornViewObserved == <>(\E q \in Readers : ReverseTorn(q))

\* C23 as amended: with the rebuilds one after the other, no query ever
\* reads the metadata map of a later rebuild than the directed graph it
\* reads: its guard of the graph, taken first, keeps the next rebuild from
\* storing anything.
C23_NoReverseTornView == \A q \in Readers : ~ReverseTorn(q)

\* a query holds its three guards over the fields of one rebuild while the
\* next rebuild has built its graph and waits to store it
C23_Witness ==
    \E q \in Readers, w \in Writers :
        /\ DOMAIN local[q].seen = Range(ReadOrder)
        /\ <<q, "directed_graph">> \in held
        /\ Seen(q, "directed_graph") >= 1
        /\ Seen(q, "card_meta") = Seen(q, "directed_graph")
        /\ pc[w] = 1
        /\ local[w].n > Seen(q, "directed_graph")
        /\ local[w].built.meta_map # card_meta

-----------------------------------------------------------------------------
(* C24: sync_index and the graph *)

\* C24: when sync_index has returned, the engine is marked initialized and
\* its graph is the one built from the cards of the vault: a node for each
\* card id and the edges their references stand for.
C24_SyncIndexRebuildsGraph ==
    ret.op = "sync_index" =>
        /\ initialized
        /\ \A built \in {build_from_cards(cards)} :
              /\ directed_graph = built.graph
              /\ node_indices = built.indices

-----------------------------------------------------------------------------
(* C25: the node index against the graph *)

\* C25: in every state of the engine, each entry id -> idx of the node-index
\* map names a node of the directed graph, and that node bears the id.
C25_IndexAgreesWithGraph ==
    \A id \in DOMAIN node_indices :
        /\ InBounds(directed_graph, node_indices[id])
        /\ directed_graph.nodes[node_indices[id]] = id

-----------------------------------------------------------------------------
(* C26: remove_card and the other cards *)

\* the card y has an edge in the graph
HasEdge(y) == \E e \in EdgeIds : e[1] = y \/ e[2] = y

\* C26: when remove_card(x) runs on an engine as a rebuild left it, then for
\* every other card y of the engine get_backlinks(y) afterwards is what it
\* was before without the entry of x, y is still in the result of
\* compute_pagerank, and get_orphan_nodes lists y afterwards iff no edge of
\* the graph enters or leaves y any more.
C26_RemoveCardAffectsOnlyThatCard ==
    [][(Built /\ RemoveCard) =>
          \A y \in DOMAIN node_indices \ {ret'.arg} :
              /\ Backlinks(y)' = {b \in Backlinks(y) : b.id # ret'.arg}
              /\ y \in DOMAIN Pagerank'
              /\ (y \in Orphans') <=> ~HasEdge(y)']_vars

-----------------------------------------------------------------------------
(* C27: update_card against a rebuild *)

\* the list cs with the card put in the place of the card of its id, or at
\* the end when cs has no card of that id
WithCard(cs, card) ==
    IF \E i \in 1..Len(cs) : cs[i].id = card.id
    THEN [i \in 1..Len(cs) |-> IF cs[i].id = card.id THEN card ELSE cs[i]]
    ELSE Append(cs, card)

\* the card that the metadata m describes under the id
CardOf(id, m) ==
    [id |-> id, title |-> m.title, card_type |-> m.card_type,
     aliases |-> m.aliases, links |-> m.links]

\* C27: when update_card(id, links, title, aliases) runs on an engine as a
\* rebuild from the list L left it, the graph has afterwards the nodes and
\* the directed edges that a rebuild has from L with the card id added, or
\* replaced, with these links, title and aliases.
C27_UpdateRefinesRebuild ==
    [][(Built /\ UpdateCard) =>
          \A built \in {build_from_cards(
                            WithCard(cards, CardOf(ret'.arg, card_meta'[ret'.arg])))} :
              /\ Range(directed_graph'.nodes) = Range(built.graph.nodes)
              /\ EdgeIds' = EdgeIdsOf(built.graph)]_vars

-----------------------------------------------------------------------------
(* C28: two rebuilds *)

\* the four fields are those that a rebuild from the list of thread t stores
FieldsBuiltBy(t) ==
    /\ directed_graph = local[t].built.graph
    /\ node_indices = local[t].built.indices
    /\ title_to_id = local[t].built.title_map
    /\ card_meta = local[t].built.meta_map

\* two calls of rebuild_with_cards, with different lists, have been made
\* and both have returned
TwoRebuildsReturned ==
    /\ calls = 2
    /\ \A t \in RaceThreads : pc[t] = 0 /\ local[t].op = "rebuild_with_cards"
    /\ local["g"].arg # local["h"].arg

\* C28: when two calls of rebuild_with_cards with different card lists have
\* both returned, whether one ran after the other or both at once, the
\* directed graph, the node-index map, the resolution index and the metadata
\* map are all those built from one of the two lists.
C28_TwoRebuildsLeaveOneBuild ==
    TwoRebuildsReturned => \E t \in RaceThreads : FieldsBuiltBy(t)

-----------------------------------------------------------------------------
(* C29: update_card and remove_card beside a query *)

\* thread o holds the three read guards of its query
InBody(o) == pc[o] = Len(ReadOrder) + 1

\* C29: a query that runs beside update_card or remove_card reads, under
\* its three guards, a directed graph, a node-index map and a metadata map
\* that the same call left, and none of the three is changed while the query
\* holds them: it sees all three as they were before a mutation or all three
\* as they are after it.
C29_MutationsAreAtomicForQueries ==
    \A o \in Observers :
        InBody(o) =>
            /\ Seen(o, "directed_graph") = Seen(o, "node_indices")
            /\ Seen(o, "node_indices") = Seen(o, "card_meta")
            /\ \A f \in Range(ReadOrder) : installed[f] = Seen(o, f)

\* update_card is half way, the graph changed and the metadata not yet,
\* while a query that was called meanwhile waits for its first guard; and
\* an earlier call has changed the fields before
C29_Witness ==
    \E m \in Mutators, o \in Observers :
        /\ local[m].op = "update_card"
        /\ installed["directed_graph"] = local[m].n
        /\ installed["card_meta"] < local[m].n
        /\ installed["card_meta"] >= 1
        /\ directed_graph # build_from_cards(AtomicCards).graph
        /\ pc[o] = 1
        /\ ~CanRead(o, "directed_graph")

-----------------------------------------------------------------------------
(* C30: the digraph of the layout against the engine's graph *)

\* C30: for a list that has been built, the digraph from which
\* compute_layout takes the importance of the nodes has the edges of the
\* engine's graph, each once, and the importance of every node of the layout
\* is, within a thousandth, the score compute_pagerank(0.85, 20) gives its
\* card.
C30_BuildPathsAgree ==
    Built =>
        /\ \A digraph \in {PagerankDigraph(cards, LayoutGraph(cards).title_to_id)} :
              /\ DOMAIN digraph.edges = DOMAIN directed_graph.edges
              /\ \A e \in DOMAIN digraph.edges : digraph.edges[e] = 1
        /\ \A pr \in {Pagerank} :
              \A n \in final_nodes(cards) :
                  /\ n.importance - ScoreOf(pr, n.id) <= Tolerance
                  /\ ScoreOf(pr, n.id) - n.importance <= Tolerance

====
